---- MODULE Spec2Model ----
(***************************************************************************)
(* Samsara temperature and door monitoring (src/streamlit_app.py).         *)
(*                                                                         *)
(* The model covers the data normalisation and door-event pipeline:        *)
(*   get_temperature_history  (the sample loop, "build")                   *)
(*   get_door_history         (the sample loop, "extract")                 *)
(*   create_chart             (the shading scan, "deriveIntervals")        *)
(*   main                     (the statistics block, "analyze")            *)
(*                                                                         *)
(* Python values are encoded as follows.                                   *)
(*   None            the empty tuple <<>>                                  *)
(*   a number n      the one-element tuple <<n>> where None is possible    *)
(*   a dict          a record; an absent key is an absent field            *)
(*   a list          a sequence                                            *)
(*   a datetime      a record [instant, tzinfo]; aware datetimes compare   *)
(*                   by their instant                                      *)
(*   a float temp    an integer number of tenths of a degree Fahrenheit    *)
(*                                                                         *)
(* Each operation is one action that applies it to an input drawn from a   *)
(* bounded set.  The history calls are modelled on their status-200 path,  *)
(* with timeMs values that datetime.fromtimestamp accepts; the handlers    *)
(* for another status or an exception (which return empty lists) and the   *)
(* HTTP exchange itself are outside the model.  create_chart is applied to *)
(* any times argument, the empty list included, although main calls it     *)
(* only when times is not empty.                                           *)
(*                                                                         *)
(* Three specifications share Init.  Spec applies each operation once to   *)
(* an arbitrary input.  SpecRerun calls the two history functions again    *)
(* and again, as the auto-refresh reruns do.  SpecMain is one run of main: *)
(* the time range is chosen, validated, queried and rendered; there a      *)
(* datetime is a record [wall, tzinfo] of wall-clock hours on a day whose  *)
(* hour 02 is skipped, and its epoch value is computed from the offset.    *)
(***************************************************************************)
EXTENDS Integers, Sequences, FiniteSets

VARIABLES
    pc,              \* which operation has run
    results,         \* data.get("results", []) of the call that ran
    times,           \* get_temperature_history: times   (create_chart: its times argument)
    temps,           \* get_temperature_history: temps
    door_events,     \* get_door_history: events
    vrects,          \* create_chart: the fig.add_vrect calls, in order
    min_threshold,   \* main: sidebar number_input
    max_threshold,   \* main: sidebar number_input
    metrics,         \* main: what the statistics block rendered
    prev_state,      \* get_door_history: the value its local prev_state ended with
    left_state,      \* the prev_state an earlier call had left when the latest call began
    ref_call,        \* one earlier call, remembered: its function, input and output
    time_mode,       \* main: sidebar radio, "Current (Live)" or "Custom Range"
    start_dt,        \* main: start of the query range
    end_dt,          \* main: end of the query range
    warned,          \* main: st.warning was shown
    fetched          \* the startMs and endMs of the history queries main made, in order

\* the state of the calls that follow one another
rerunVars == <<prev_state, left_state, ref_call>>

\* the state of the query range of main
rangeVars == <<time_mode, start_dt, end_dt, warned, fetched>>

vars == <<pc, results, times, temps, door_events, vrects,
          min_threshold, max_threshold, metrics, rerunVars, rangeVars>>

(***************************************************************************)
(* Bounds of the model.                                                    *)
(***************************************************************************)
MaxLen == 3          \* longest "results" list of a response

\* "stepMs": 60000, the sampling step of both history queries
StepMs == 60000

None == <<>>
Some(x) == <<x>>

\* the timeMs values of the temperature records and of the door records
TempTimeMs == {0, StepMs}

DoorTimeMs == {0, StepMs, 2 * StepMs}

\* all sequences over S of length at most n
SeqUpTo(S, n) == UNION {[1..k -> S] : k \in 0..n}

(***************************************************************************)
(* The responses of the vendor API (POST /v1/sensors/history).             *)
(* A record carries "timeMs" or not, and a "series" list that is empty or  *)
(* holds None or a number.                                                 *)
(***************************************************************************)
\* milli-Celsius readings: 30.0 F, 50.0 F, 80.0 F
MilliC == {-1111, 10000, 26667}

TempSeries == {<<>>, <<None>>, <<Some(0)>>} \cup {<<Some(m)>> : m \in MilliC}

DoorSeries == {<<>>, <<None>>, <<Some(0)>>, <<Some(1)>>}

RecordsOver(T, S) == [timeMs : T, series : S] \cup [series : S]

TempResults == SeqUpTo(RecordsOver(TempTimeMs, TempSeries), MaxLen)

DoorResults == SeqUpTo(RecordsOver(DoorTimeMs, DoorSeries), MaxLen)

\* r.get("timeMs")
GetTimeMs(r) == IF "timeMs" \in DOMAIN r THEN Some(r.timeMs) ELSE None

\* r.get("series", [])
GetSeries(r) == IF "series" \in DOMAIN r THEN r.series ELSE <<>>

\* datetime.fromtimestamp(time_ms / 1000, tz=timezone.utc).astimezone(PST)
FromTimestampPST(time_ms) == [instant |-> time_ms, tzinfo |-> "America/Los_Angeles"]

\* round((milli_c / 1000 * 9/5) + 32, 1), in tenths of a degree; no reading
\* of MilliC lies halfway between two tenths
milli_c_to_f(milli_c) == ((18 * milli_c + 500) \div 1000) + 320

(***************************************************************************)
(* get_temperature_history: the loop over the results (lines 125-147).     *)
(***************************************************************************)
\* TempLoopBody without the "milli_c == 0" test: a zero reading is kept
TempLoopBodyKeepZero(acc, r) ==
    LET time_ms == GetTimeMs(r)
        series == GetSeries(r)
        milli_c == IF series # <<>> /\ series[1] # None THEN series[1] ELSE None
    IN  IF time_ms = None
        THEN acc
        ELSE IF milli_c = None
        THEN acc
        ELSE [times |-> Append(acc.times, FromTimestampPST(time_ms[1])),
              temps |-> Append(acc.temps, milli_c_to_f(milli_c[1]))]

\* TempLoopBody inserting each point at the front of the lists
TempLoopBodyPrepend(acc, r) ==
    LET time_ms == GetTimeMs(r)
        series == GetSeries(r)
        milli_c == IF series # <<>> /\ series[1] # None THEN series[1] ELSE None
    IN  IF time_ms = None
        THEN acc
        ELSE IF milli_c = None \/ milli_c[1] = 0
        THEN acc
        ELSE [times |-> <<FromTimestampPST(time_ms[1])>> \o acc.times,
              temps |-> <<milli_c_to_f(milli_c[1])>> \o acc.temps]

\* TempLoopBody giving up on a record without timeMs: what was collected is lost
TempLoopBodyAbortOnMissing(acc, r) ==
    LET time_ms == GetTimeMs(r)
        series == GetSeries(r)
        milli_c == IF series # <<>> /\ series[1] # None THEN series[1] ELSE None
    IN  IF time_ms = None
        THEN [times |-> <<>>, temps |-> <<>>]
        ELSE IF milli_c = None \/ milli_c[1] = 0
        THEN acc
        ELSE [times |-> Append(acc.times, FromTimestampPST(time_ms[1])),
              temps |-> Append(acc.temps, milli_c_to_f(milli_c[1]))]

\* one iteration of "for r in results", acc = [times, temps]
TempLoopBody(acc, r) ==
    LET time_ms == GetTimeMs(r)
        series == GetSeries(r)
        milli_c == IF series # <<>> /\ series[1] # None THEN series[1] ELSE None
    IN  IF time_ms = None
        THEN acc                                   \* continue
        ELSE IF milli_c = None \/ milli_c[1] = 0
        THEN acc                                   \* continue
        ELSE [times |-> Append(acc.times, FromTimestampPST(time_ms[1])),
              temps |-> Append(acc.temps, milli_c_to_f(milli_c[1]))]

RECURSIVE TempLoop(_, _)
TempLoop(acc, rs) ==
    IF rs = <<>> THEN acc ELSE TempLoop(TempLoopBody(acc, Head(rs)), Tail(rs))

\* times = [], temps = [], the loop, return times, temps
BuildTemperatureSeries(rs) == TempLoop([times |-> <<>>, temps |-> <<>>], rs)

(***************************************************************************)
(* get_door_history: the loop over the results (lines 215-237).            *)
(***************************************************************************)
\* DoorLoopBody without the state-change test: every timed record is logged
DoorLoopBodyEveryRecord(acc, r) ==
    LET time_ms == GetTimeMs(r)
        series == GetSeries(r)
    IN  IF time_ms = None
        THEN acc
        ELSE LET ts == FromTimestampPST(time_ms[1])
                 is_closed == IF series # <<>> /\ series[1] # None
                              THEN series[1][1] = 1
                              ELSE TRUE
                 is_open == ~is_closed
             IN  [events |-> Append(acc.events, [ts |-> ts, is_open |-> is_open]),
                  prev_state |-> Some(is_open)]

\* DoorLoopBody with prev_state taken to be "closed" before the first record
DoorLoopBodyAssumeClosed(acc, r) ==
    LET time_ms == GetTimeMs(r)
        series == GetSeries(r)
    IN  IF time_ms = None
        THEN acc
        ELSE LET ts == FromTimestampPST(time_ms[1])
                 is_closed == IF series # <<>> /\ series[1] # None
                              THEN series[1][1] = 1
                              ELSE TRUE
                 is_open == ~is_closed
                 prev == IF acc.prev_state = None THEN Some(FALSE) ELSE acc.prev_state
             IN  IF Some(is_open) # prev
                 THEN [events |-> Append(acc.events, [ts |-> ts, is_open |-> is_open]),
                       prev_state |-> Some(is_open)]
                 ELSE [acc EXCEPT !.prev_state = prev]

\* DoorLoopBody with a missing or null value read as "not closed"
DoorLoopBodyMissingIsOpen(acc, r) ==
    LET time_ms == GetTimeMs(r)
        series == GetSeries(r)
    IN  IF time_ms = None
        THEN acc
        ELSE LET ts == FromTimestampPST(time_ms[1])
                 is_closed == IF series # <<>> /\ series[1] # None
                              THEN series[1][1] = 1
                              ELSE FALSE
                 is_open == ~is_closed
             IN  IF acc.prev_state = None \/ Some(is_open) # acc.prev_state
                 THEN [events |-> Append(acc.events, [ts |-> ts, is_open |-> is_open]),
                       prev_state |-> Some(is_open)]
                 ELSE acc

\* one iteration of "for r in results", acc = [events, prev_state]
DoorLoopBody(acc, r) ==
    LET time_ms == GetTimeMs(r)
        series == GetSeries(r)
    IN  IF time_ms = None
        THEN acc                                   \* continue
        ELSE LET ts == FromTimestampPST(time_ms[1])
                 is_closed == IF series # <<>> /\ series[1] # None
                              THEN series[1][1] = 1
                              ELSE TRUE
                 is_open == ~is_closed
             IN  IF acc.prev_state = None \/ Some(is_open) # acc.prev_state
                 THEN [events |-> Append(acc.events, [ts |-> ts, is_open |-> is_open]),
                       prev_state |-> Some(is_open)]
                 ELSE acc

RECURSIVE DoorLoop(_, _)
DoorLoop(acc, rs) ==
    IF rs = <<>> THEN acc ELSE DoorLoop(DoorLoopBody(acc, Head(rs)), Tail(rs))

\* events = [], prev_state = None, the loop, return events
ExtractDoorEvents(rs) == DoorLoop([events |-> <<>>, prev_state |-> None], rs).events

(***************************************************************************)
(* create_chart: the shaded regions for door open periods (lines 305-331). *)
(***************************************************************************)
\* ShadeLoopBody with x0 and x1 of the region swapped
ShadeLoopBodySwapped(acc, ev) ==
    IF ev.is_open /\ acc.open_start = None
    THEN [acc EXCEPT !.open_start = Some(ev.ts)]
    ELSE IF ~ev.is_open /\ acc.open_start # None
    THEN [open_start |-> None,
          vrects |-> Append(acc.vrects, [x0 |-> ev.ts, x1 |-> acc.open_start[1]])]
    ELSE acc

\* ShadeLoopBody without "open_start = None" after a region is added
ShadeLoopBodyNoReset(acc, ev) ==
    IF ev.is_open /\ acc.open_start = None
    THEN [acc EXCEPT !.open_start = Some(ev.ts)]
    ELSE IF ~ev.is_open /\ acc.open_start # None
    THEN [acc EXCEPT !.vrects = Append(acc.vrects, [x0 |-> acc.open_start[1], x1 |-> ev.ts])]
    ELSE acc

\* one iteration of "for ts, is_open in door_events", acc = [open_start, vrects]
ShadeLoopBody(acc, ev) ==
    IF ev.is_open /\ acc.open_start = None
    THEN [acc EXCEPT !.open_start = Some(ev.ts)]
    ELSE IF ~ev.is_open /\ acc.open_start # None
    THEN [open_start |-> None,
          vrects |-> Append(acc.vrects, [x0 |-> acc.open_start[1], x1 |-> ev.ts])]
    ELSE acc

RECURSIVE ShadeLoop(_, _)
ShadeLoop(acc, evs) ==
    IF evs = <<>> THEN acc ELSE ShadeLoop(ShadeLoopBody(acc, Head(evs)), Tail(evs))

\* ShadeStillOpen ending the region at times[0] instead of times[-1]
ShadeStillOpenFirstPoint(acc, tms) ==
    IF acc.open_start # None /\ tms # <<>>
    THEN Append(acc.vrects, [x0 |-> acc.open_start[1], x1 |-> tms[1]])
    ELSE acc.vrects

\* "If door is still open, shade until the last data point"
ShadeStillOpen(acc, tms) ==
    IF acc.open_start # None /\ tms # <<>>
    THEN Append(acc.vrects, [x0 |-> acc.open_start[1], x1 |-> tms[Len(tms)]])
    ELSE acc.vrects

ShadeDoorOpen(tms, evs) ==
    IF evs # <<>>
    THEN ShadeStillOpen(ShadeLoop([open_start |-> None, vrects |-> <<>>], evs), tms)
    ELSE <<>>

(***************************************************************************)
(* main: the statistics of the fetched series (lines 622-640).             *)
(***************************************************************************)
RECURSIVE PyMin(_)
PyMin(s) ==
    IF Len(s) = 1 THEN s[1]
    ELSE LET m == PyMin(Tail(s)) IN IF m < s[1] THEN m ELSE s[1]

RECURSIVE PyMax(_)
PyMax(s) ==
    IF Len(s) = 1 THEN s[1]
    ELSE LET m == PyMax(Tail(s)) IN IF m > s[1] THEN m ELSE s[1]

\* IsOutOfRange with a reading equal to a threshold counted as out of range
IsOutOfRangeInclusive(t, lo, hi) == t <= 10 * lo \/ t >= 10 * hi

\* t < min_threshold or t > max_threshold, t in tenths, thresholds in degrees
IsOutOfRange(t, lo, hi) == t < 10 * lo \/ t > 10 * hi

\* sum(1 for t in temps if t < min_threshold or t > max_threshold)
RECURSIVE OutOfRange(_, _, _)
OutOfRange(s, lo, hi) ==
    IF s = <<>> THEN 0
    ELSE (IF IsOutOfRange(Head(s), lo, hi) THEN 1 ELSE 0) + OutOfRange(Tail(s), lo, hi)

\* what "if times: ... else: st.error(...)" renders; a metric that reads "N/A" is None
RenderStatistics(tms, tps, lo, hi) ==
    IF tms # <<>>
    THEN [banner |-> "success",
          shown |-> << [min_temp |-> IF tps # <<>> THEN Some(PyMin(tps)) ELSE None,
                        max_temp |-> IF tps # <<>> THEN Some(PyMax(tps)) ELSE None,
                        out_of_range |-> OutOfRange(tps, lo, hi)] >>]
    ELSE [banner |-> "error", shown |-> <<>>]

(***************************************************************************)
(* The state machine: each operation applied to inputs from bounded sets.  *)
(***************************************************************************)
\* the sidebar thresholds (number_input, 0..100, defaults 35 and 75)
ThresholdInputs == {<<35, 75>>, <<30, 80>>, <<75, 35>>}

\* the times argument of create_chart
TimesArgs == SeqUpTo({FromTimestampPST(t) : t \in TempTimeMs}, 2)

Init ==
    /\ pc = "idle"
    /\ results = <<>>
    /\ times = <<>>
    /\ temps = <<>>
    /\ door_events = <<>>
    /\ vrects = <<>>
    /\ min_threshold = 35
    /\ max_threshold = 75
    /\ metrics = [banner |-> "", shown |-> <<>>]
    /\ prev_state = <<>>
    /\ left_state = <<>>
    /\ ref_call = <<>>
    /\ time_mode = ""
    /\ start_dt = <<>>
    /\ end_dt = <<>>
    /\ warned = FALSE
    /\ fetched = <<>>

\* times, temps = get_temperature_history(start_dt, end_dt), status 200
GetTemperatureHistory ==
    /\ pc = "idle"
    /\ \E rs \in TempResults :
          LET out == BuildTemperatureSeries(rs)
          IN  /\ results' = rs
              /\ times' = out.times
              /\ temps' = out.temps
    /\ pc' = "temperature"
    /\ UNCHANGED <<door_events, vrects, min_threshold, max_threshold, metrics>>
    /\ UNCHANGED <<rerunVars, rangeVars>>

\* the statistics block of main, on the series just fetched
MainStatistics ==
    /\ pc = "temperature"
    /\ \E th \in ThresholdInputs :
          /\ min_threshold' = th[1]
          /\ max_threshold' = th[2]
          /\ metrics' = RenderStatistics(times, temps, th[1], th[2])
    /\ pc' = "stats"
    /\ UNCHANGED <<results, times, temps, door_events, vrects>>
    /\ UNCHANGED <<rerunVars, rangeVars>>

\* door_events = get_door_history(start_dt, end_dt), status 200
GetDoorHistory ==
    /\ pc = "idle"
    /\ \E rs \in DoorResults :
          /\ results' = rs
          /\ door_events' = ExtractDoorEvents(rs)
    /\ pc' = "door"
    /\ UNCHANGED <<times, temps, vrects, min_threshold, max_threshold, metrics>>
    /\ UNCHANGED <<rerunVars, rangeVars>>

\* create_chart(times, temps, door_events, ...): the shading scan
CreateChart ==
    /\ pc = "door"
    /\ \E tms \in TimesArgs :
          /\ times' = tms
          /\ vrects' = ShadeDoorOpen(tms, door_events)
    /\ pc' = "chart"
    /\ UNCHANGED <<results, temps, door_events, min_threshold, max_threshold, metrics>>
    /\ UNCHANGED <<rerunVars, rangeVars>>

Next ==
    \/ GetTemperatureHistory
    \/ MainStatistics
    \/ GetDoorHistory
    \/ CreateChart

Spec == Init /\ [][Next]_vars

(***************************************************************************)
(* Vocabulary of the properties.                                           *)
(***************************************************************************)
AfterBuild == pc \in {"temperature", "stats"}

AfterExtract == pc \in {"door", "chart"}

\* the sample has a timeMs
HasTimeMs(r) == "timeMs" \in DOMAIN r

\* the sample carries a series value that is present and not null
HasValue(r) == "series" \in DOMAIN r /\ r.series # <<>> /\ r.series[1] # <<>>

ValueOf(r) == r.series[1][1]

\* a temperature sample that yields a point
IsReading(r) == HasTimeMs(r) /\ HasValue(r) /\ ValueOf(r) # 0

\* the door state a timed sample stands for: closed unless a value other than 1
StandsForOpen(r) == HasValue(r) /\ ValueOf(r) # 1

\* the indices of the samples of rs that satisfy Test
Indices(rs, Test(_)) == {i \in DOMAIN rs : Test(rs[i])}

\* the position of index i among the indices I, counted from 1
Rank(I, i) == Cardinality({j \in I : j <= i})

\* a sequence of instants is non-decreasing
NonDecreasing(s) == \A i, j \in DOMAIN s : i < j => s[i] <= s[j]

Instant(dt) == dt.instant

(***************************************************************************)
(* C1. The events returned by get_door_history never hold two consecutive  *)
(* events with the same is_open: is_open alternates along the list.        *)
(***************************************************************************)
C1_Alternates ==
    AfterExtract =>
        \A i \in 1..(Len(door_events) - 1) :
            door_events[i].is_open # door_events[i + 1].is_open

\* three timed samples, two of them in one run, collapsed to two events
C1_Witness ==
    /\ pc = "door"
    /\ Len(results) = 3
    /\ \A i \in 1..3 : HasTimeMs(results[i])
    /\ Len(door_events) = 2

(***************************************************************************)
(* C2. get_temperature_history returns exactly one point per sample that   *)
(* has a timeMs and a series value that is present, non-null and not 0, in *)
(* input order, unsorted and with equal timestamps kept; the output is     *)
(* never longer than the input.                                            *)
(***************************************************************************)
C2_OnePointPerReading ==
    AfterBuild =>
        LET I == Indices(results, IsReading)
        IN  /\ Len(times) = Cardinality(I)
            /\ Len(temps) = Cardinality(I)
            /\ Len(times) <= Len(results)
            /\ \A i \in I :
                  /\ times[Rank(I, i)].instant = results[i].timeMs
                  /\ temps[Rank(I, i)] = milli_c_to_f(ValueOf(results[i]))

\* a dropped sample, and two readings kept in their descending input order
C2_Witness ==
    /\ pc = "temperature"
    /\ Len(results) = 3
    /\ Len(times) = 2
    /\ times[1].instant > times[2].instant
    /\ \E i \in 1..3 : HasTimeMs(results[i]) /\ HasValue(results[i]) /\ ValueOf(results[i]) = 0

(***************************************************************************)
(* C3. get_door_history is a run-length collapse: among the samples with a *)
(* timeMs an event is emitted for the first one and for every one whose    *)
(* state differs from the state before it, and for no other sample; each   *)
(* event carries the timestamp and the state of the sample that triggered  *)
(* it.                                                                     *)
(***************************************************************************)
C3_RunLengthCollapse ==
    AfterExtract =>
        LET T == Indices(results, HasTimeMs)
            Prev(i) == CHOOSE j \in T : j < i /\ \A k \in T : k < i => k <= j
            E == {i \in T : \/ \A k \in T : i <= k
                            \/ /\ \E k \in T : k < i
                               /\ StandsForOpen(results[i]) # StandsForOpen(results[Prev(i)])}
        IN  /\ Len(door_events) = Cardinality(E)
            /\ \A i \in E :
                  /\ door_events[Rank(E, i)].ts.instant = results[i].timeMs
                  /\ door_events[Rank(E, i)].is_open = StandsForOpen(results[i])

\* closed@0, closed@60000, open@120000 yields closed@0, open@120000
C3_Witness ==
    /\ pc = "door"
    /\ results = << [timeMs |-> 0, series |-> <<Some(1)>>],
                    [timeMs |-> StepMs, series |-> <<Some(1)>>],
                    [timeMs |-> 2 * StepMs, series |-> <<Some(0)>>] >>
    /\ door_events = << [ts |-> FromTimestampPST(0), is_open |-> FALSE],
                        [ts |-> FromTimestampPST(2 * StepMs), is_open |-> TRUE] >>

(***************************************************************************)
(* C4. A door sample with a timeMs whose series value is absent, empty or  *)
(* null counts as closed, and a present value is closed exactly when it is *)
(* 1: the first and the last event carry the state their sample stands     *)
(* for, a response without any non-null value yields no open event, and    *)
(* the shading scan over its events adds no region.                        *)
(***************************************************************************)
C4_MissingValueIsClosed ==
    AfterExtract =>
        LET T == Indices(results, HasTimeMs)
            First == CHOOSE i \in T : \A k \in T : i <= k
            Last == CHOOSE i \in T : \A k \in T : k <= i
        IN  /\ T # {} =>
                  /\ door_events # <<>>
                  /\ door_events[1].is_open = StandsForOpen(results[First])
                  /\ door_events[Len(door_events)].is_open = StandsForOpen(results[Last])
            /\ (\A i \in DOMAIN results : ~HasValue(results[i])) =>
                  /\ \A k \in DOMAIN door_events : ~door_events[k].is_open
                  /\ pc = "chart" => vrects = <<>>

\* three timed samples with an empty and a null series, one closed event, charted
C4_Witness ==
    /\ pc = "chart"
    /\ Len(results) = 3
    /\ \A i \in 1..3 : HasTimeMs(results[i]) /\ ~HasValue(results[i])
    /\ \E i, j \in 1..3 : results[i].series = <<>> /\ results[j].series = <<None>>
    /\ door_events = << [ts |-> FromTimestampPST(results[1].timeMs), is_open |-> FALSE] >>
    /\ times # <<>>
    /\ vrects = <<>>

(***************************************************************************)
(* The open runs of an event list, as the shading scan sees them.          *)
(***************************************************************************)
\* the events that start a candidate: an open event not preceded by an open one
RunStarts(evs) ==
    {i \in DOMAIN evs : evs[i].is_open /\ (i = 1 \/ ~evs[i - 1].is_open)}

\* the candidates that a later closed event closes
ClosedRuns(evs) ==
    {i \in RunStarts(evs) : \E j \in DOMAIN evs : j > i /\ ~evs[j].is_open}

\* the first closed event after i
CloseOf(evs, i) ==
    CHOOSE j \in DOMAIN evs :
        /\ j > i
        /\ ~evs[j].is_open
        /\ \A k \in DOMAIN evs : (k > i /\ ~evs[k].is_open) => j <= k

\* a candidate is pending when the scan ends
EndsOpen(evs) == evs # <<>> /\ evs[Len(evs)].is_open

C6_TrailingRegion ==
    (pc = "chart" /\ EndsOpen(door_events)) =>
        LET C == ClosedRuns(door_events)
            Pending == CHOOSE i \in RunStarts(door_events) : i \notin C
        IN  IF times # <<>>
            THEN /\ Len(vrects) = Cardinality(C) + 1
                 /\ vrects[Len(vrects)] =
                        [x0 |-> door_events[Pending].ts, x1 |-> times[Len(times)]]
            ELSE Len(vrects) = Cardinality(C)

\* open, closed, open charted with two temperature points: the second region ends at the last
C6_Witness ==
    /\ pc = "chart"
    /\ Len(door_events) = 3
    /\ EndsOpen(door_events)
    /\ Len(times) = 2
    /\ times[1] # times[2]
    /\ Len(vrects) = 2
    /\ vrects[2].x1 = times[2]

\* a pending candidate and no temperature point: no region
C6_WitnessSuppressed ==
    /\ pc = "chart"
    /\ EndsOpen(door_events)
    /\ times = <<>>
    /\ vrects = <<>>

(***************************************************************************)
(* C7. The statistics block of main reports the number of points strictly  *)
(* below min_threshold or strictly above max_threshold, and the smallest   *)
(* and largest temperature of the series.                                  *)
(***************************************************************************)
\* the statistics a series calls for: min and max absent for an empty series
ExpectedStatistics(tps, lo, hi) ==
    [min_temp |-> IF tps = <<>> THEN None
                  ELSE Some(CHOOSE m \in {tps[i] : i \in DOMAIN tps} :
                                \A i \in DOMAIN tps : m <= tps[i]),
     max_temp |-> IF tps = <<>> THEN None
                  ELSE Some(CHOOSE m \in {tps[i] : i \in DOMAIN tps} :
                                \A i \in DOMAIN tps : tps[i] <= m),
     out_of_range |-> Cardinality({i \in DOMAIN tps :
                                      tps[i] < 10 * lo \/ tps[i] > 10 * hi})]

\* C7 as claimed: every series, the empty one included, gets its statistics
\* (min and max "N/A", count 0)
C7_StatisticsOfEverySeries ==
    pc = "stats" =>
        metrics.shown = << ExpectedStatistics(temps, min_threshold, max_threshold) >>

\* C7 as the code has it: a non-empty series gets its statistics; for an
\* empty series the block is skipped, the error banner is shown and no
\* min, max or count is rendered
C7_StatisticsOfNonEmptySeries ==
    pc = "stats" =>
        IF temps # <<>>
        THEN /\ metrics.banner = "success"
             /\ metrics.shown = << ExpectedStatistics(temps, min_threshold, max_threshold) >>
        ELSE /\ metrics.banner = "error"
             /\ metrics.shown = <<>>

\* [30, 50, 80] with thresholds (35, 75): min 30, max 80, count 2
C7_Witness ==
    /\ pc = "stats"
    /\ temps = <<300, 500, 800>>
    /\ min_threshold = 35
    /\ max_threshold = 75
    /\ metrics.shown = << [min_temp |-> Some(300), max_temp |-> Some(800), out_of_range |-> 2] >>

\* readings equal to both thresholds are in range
C7_WitnessAtThreshold ==
    /\ pc = "stats"
    /\ temps = <<300, 800>>
    /\ min_threshold = 30
    /\ max_threshold = 80
    /\ metrics.shown[1].out_of_range = 0

(***************************************************************************)
(* C8. The timestamps of the series get_temperature_history returns and of *)
(* the events get_door_history returns are non-decreasing in output order. *)
(***************************************************************************)
OutputInstants ==
    IF AfterBuild THEN [i \in DOMAIN times |-> times[i].instant]
    ELSE IF AfterExtract THEN [i \in DOMAIN door_events |-> door_events[i].ts.instant]
    ELSE <<>>

\* the timeMs of the timed samples of the response, in input order
InputInstants ==
    LET T == Indices(results, HasTimeMs)
    IN  [k \in 1..Cardinality(T) |->
            results[CHOOSE i \in T : Rank(T, i) = k].timeMs]

RegionsInOrder ==
    \A k, l \in DOMAIN vrects : k < l => vrects[k].x1.instant <= vrects[l].x0.instant

\* C9 as claimed: for every event list
C9_RegionsInOrder == pc = "chart" => RegionsInOrder

\* C9 as the code has it: for every event list whose timestamps are
\* non-decreasing
C9_SortedEventsGiveRegionsInOrder ==
    (pc = "chart" /\ NonDecreasing([i \in DOMAIN door_events |-> door_events[i].ts.instant]))
        => RegionsInOrder

\* open, closed, open at ascending timestamps: a closed region, then the trailing one
C9_Witness ==
    /\ pc = "chart"
    /\ Len(door_events) = 3
    /\ door_events[1].ts.instant < door_events[2].ts.instant
    /\ door_events[2].ts.instant < door_events[3].ts.instant
    /\ Len(vrects) = 2
    /\ vrects[2].x0 = door_events[3].ts

(***************************************************************************)
(* C10. A malformed sample is dropped without ending the scan: the output  *)
(* is the output on the response with the malformed samples removed, and   *)
(* an empty response gives an empty output.                                *)
(***************************************************************************)
\* malformed for the temperature loop: no timeMs, or a null, absent or 0 value
MalformedTemp(r) == ~HasTimeMs(r) \/ ~HasValue(r) \/ ValueOf(r) = 0

WellFormedTemp(r) == ~MalformedTemp(r)

\* malformed for the door loop: no timeMs, or a null or absent value
MalformedDoor(r) == ~HasTimeMs(r) \/ ~HasValue(r)

WellFormedDoor(r) == ~MalformedDoor(r)

BuildOutput == [times |-> times, temps |-> temps]

\* C10 as claimed: both loops drop every malformed sample
C10_MalformedDropped ==
    /\ AfterBuild =>
          BuildOutput = BuildTemperatureSeries(SelectSeq(results, WellFormedTemp))
    /\ AfterExtract =>
          door_events = ExtractDoorEvents(SelectSeq(results, WellFormedDoor))
    /\ (AfterBuild /\ results = <<>>) => BuildOutput = [times |-> <<>>, temps |-> <<>>]
    /\ (AfterExtract /\ results = <<>>) => door_events = <<>>

\* a timed door sample with its null or absent value replaced by the closed reading 1
ReadAsClosed(r) == IF HasValue(r) THEN r ELSE [r EXCEPT !.series = <<Some(1)>>]

\* C10 as the code has it: the temperature loop drops every malformed
\* sample; the door loop drops only the samples without timeMs, and reads a
\* timed sample with a null or absent value as a closed reading
C10_DroppedAsTheLoopsDo ==
    /\ AfterBuild =>
          BuildOutput = BuildTemperatureSeries(SelectSeq(results, WellFormedTemp))
    /\ AfterExtract =>
          LET timed == SelectSeq(results, HasTimeMs)
          IN  door_events = ExtractDoorEvents([i \in DOMAIN timed |-> ReadAsClosed(timed[i])])
    /\ (AfterBuild /\ results = <<>>) => BuildOutput = [times |-> <<>>, temps |-> <<>>]
    /\ (AfterExtract /\ results = <<>>) => door_events = <<>>

\* a record without timeMs, a zero reading, then a reading: one point, the reading's
C10_Witness ==
    /\ pc = "temperature"
    /\ Len(results) = 3
    /\ ~HasTimeMs(results[1])
    /\ HasTimeMs(results[2]) /\ HasValue(results[2]) /\ ValueOf(results[2]) = 0
    /\ WellFormedTemp(results[3])
    /\ Len(times) = 1
    /\ times[1].instant = results[3].timeMs

\* open, null, open: the null sample is not dropped, it closes the open run
C10_WitnessDoor ==
    /\ pc = "door"
    /\ Len(results) = 3
    /\ \A i \in 1..3 : HasTimeMs(results[i])
    /\ StandsForOpen(results[1]) /\ ~HasValue(results[2]) /\ StandsForOpen(results[3])
    /\ Len(door_events) = 3

(***************************************************************************)
(* Calls that follow one another, as in the auto-refresh reruns of main:   *)
(* any number of get_temperature_history and get_door_history calls, in    *)
(* any order, each on a response of its own.  Every call creates its       *)
(* locals anew (lines 125-126 and 215-216); what an earlier call left in   *)
(* its locals is passed to the definitions below only to show that it is   *)
(* not read.  The variables times, temps and door_events hold what the     *)
(* latest call returned.                                                   *)
(***************************************************************************)
RerunLen == 2        \* longest "results" list of a response in these calls

\* a response with one record per sampling step, from the values vs
Sampled(vs) == [i \in DOMAIN vs |-> [timeMs |-> (i - 1) * StepMs, series |-> <<Some(vs[i])>>]]

RerunTempResults == {Sampled(vs) : vs \in SeqUpTo({0, 10000}, RerunLen)}

RerunDoorResults == {Sampled(vs) : vs \in SeqUpTo({0, 1}, RerunLen)}

\* TempLoopStart going on with the lists of the call before
TempLoopStartKeepLists(left) == left

\* times = [], temps = []
TempLoopStart(left) == [times |-> <<>>, temps |-> <<>>]

\* DoorLoopStart going on with the prev_state of the call before
DoorLoopStartKeepState(left) == [events |-> <<>>, prev_state |-> left]

\* events = [], prev_state = None
DoorLoopStart(left) == [events |-> <<>>, prev_state |-> None]

\* a call is remembered at most once; Older marks it once another call has run
Remember(fn, input, output) ==
    \/ ref_call' = <<[fn |-> fn, input |-> input, output |-> output, older |-> FALSE]>>
       /\ ref_call = None
    \/ ref_call' = IF ref_call = None THEN None ELSE <<[ref_call[1] EXCEPT !.older = TRUE]>>

\* get_temperature_history(start_dt, end_dt), status 200, after any earlier calls
CallTemperatureHistory ==
    /\ pc \in {"idle", "called_temperature", "called_door"}
    /\ \E rs \in RerunTempResults :
          LET out == TempLoop(TempLoopStart([times |-> times, temps |-> temps]), rs)
          IN  /\ results' = rs
              /\ times' = out.times
              /\ temps' = out.temps
              /\ Remember("temperature", rs, out)
    /\ door_events' = <<>>
    /\ left_state' = prev_state
    /\ pc' = "called_temperature"
    /\ UNCHANGED <<vrects, min_threshold, max_threshold, metrics, prev_state, rangeVars>>

\* get_door_history(start_dt, end_dt), status 200, after any earlier calls
CallDoorHistory ==
    /\ pc \in {"idle", "called_temperature", "called_door"}
    /\ \E rs \in RerunDoorResults :
          LET out == DoorLoop(DoorLoopStart(prev_state), rs)
          IN  /\ results' = rs
              /\ door_events' = out.events
              /\ prev_state' = out.prev_state
              /\ Remember("door", rs, out.events)
    /\ times' = <<>>
    /\ temps' = <<>>
    /\ left_state' = prev_state
    /\ pc' = "called_door"
    /\ UNCHANGED <<vrects, min_threshold, max_threshold, metrics, rangeVars>>

NextRerun ==
    \/ CallTemperatureHistory
    \/ CallDoorHistory

SpecRerun == Init /\ [][NextRerun]_vars

(***************************************************************************)
(* C11. Across any sequence of get_temperature_history and                 *)
(* get_door_history calls, a call's output depends only on its input: a    *)
(* call on the response of an earlier call of the same function returns    *)
(* what that call returned, whatever ran in between.  prev_state starts    *)
(* undefined in every get_door_history call: the first timed sample is     *)
(* emitted even when its state is the state the call before ended in.      *)
(***************************************************************************)
C11_OutputDependsOnInputOnly ==
    /\ (ref_call # None /\ pc = "called_temperature"
            /\ ref_call[1].fn = "temperature" /\ ref_call[1].input = results)
          => ref_call[1].output = [times |-> times, temps |-> temps]
    /\ (ref_call # None /\ pc = "called_door"
            /\ ref_call[1].fn = "door" /\ ref_call[1].input = results)
          => ref_call[1].output = door_events
    /\ (pc = "called_door" /\ results # <<>>)
          => /\ door_events # <<>>
             /\ door_events[1] = [ts |-> FromTimestampPST(results[1].timeMs),
                                  is_open |-> StandsForOpen(results[1])]

\* a door call that repeats an earlier one, begun with the state "open" left
\* behind, whose first sample is open: the open event is emitted again
C11_Witness ==
    /\ pc = "called_door"
    /\ ref_call # None
    /\ ref_call[1].fn = "door"
    /\ ref_call[1].older
    /\ ref_call[1].input = results
    /\ left_state = Some(TRUE)
    /\ Len(results) = 2
    /\ StandsForOpen(results[1])
    /\ door_events[1].is_open

(***************************************************************************)
(* One run of main: the query range from the sidebar, its validation, the  *)
(* two history queries, the chart and the statistics.                      *)
(*                                                                         *)
(* start_dt and end_dt are datetimes with tzinfo PST built from wall-clock *)
(* fields, so they are modelled by their wall-clock hour, counted from     *)
(* midnight of a day on which America/Los_Angeles springs forward (the     *)
(* wall clock jumps from 02:00 to 03:00).  Python compares two datetimes   *)
(* that share their tzinfo by their wall-clock fields, subtracts a         *)
(* timedelta on the wall clock, and timestamp() applies the UTC offset of  *)
(* the wall-clock time, which for the skipped hour is the offset before    *)
(* the jump.                                                               *)
(***************************************************************************)
MaxClock == 4        \* wall-clock hours 0..MaxClock of the day are selectable

MsPerHour == 3600000

\* st.sidebar.selectbox("Show last", [1, 2, 4, 8, 12, 24])
HoursBack == {1, 2, 4, 8, 12, 24}

\* the hours the date and time pickers of the custom range can give
PickerHours == 0..MaxClock

\* the hours datetime.now(PST) can give: the skipped hour never is "now"
NowHours == PickerHours \ {2}

WallClock(h) == [wall |-> h, tzinfo |-> "America/Los_Angeles"]

\* PST.utcoffset(dt) in hours: PST before the jump and in the skipped hour, PDT after
UtcOffset(dt) == IF dt.wall < 3 THEN -8 ELSE -7

\* int(dt.timestamp() * 1000), counted from 00:00 UTC of the day
ToEpochMs(dt) == (dt.wall - UtcOffset(dt)) * MsPerHour

\* start_dt >= end_dt, both with tzinfo PST
NotBefore(a, b) == a.wall >= b.wall

\* time_mode == "Current (Live)": the last hours_back hours up to now
SelectLiveRange ==
    /\ pc = "idle"
    /\ \E now \in NowHours, hours_back \in HoursBack :
          /\ end_dt' = Some(WallClock(now))
          /\ start_dt' = Some(WallClock(now - hours_back))
    /\ time_mode' = "Current (Live)"
    /\ pc' = "range"
    /\ UNCHANGED <<results, times, temps, door_events, vrects, min_threshold,
                   max_threshold, metrics, rerunVars, warned, fetched>>

\* time_mode == "Custom Range": dates and times from the pickers
SelectCustomRange ==
    /\ pc = "idle"
    /\ \E s \in PickerHours, e \in PickerHours :
          /\ start_dt' = Some(WallClock(s))
          /\ end_dt' = Some(WallClock(e))
    /\ time_mode' = "Custom Range"
    /\ pc' = "range"
    /\ UNCHANGED <<results, times, temps, door_events, vrects, min_threshold,
                   max_threshold, metrics, rerunVars, warned, fetched>>

\* the range validation of main (lines 605-608)
RangeRejected == time_mode = "Custom Range" /\ NotBefore(start_dt[1], end_dt[1])

\* st.warning("Start date/time must be before end date/time"); return
RejectRange ==
    /\ pc = "range"
    /\ RangeRejected
    /\ warned' = TRUE
    /\ pc' = "returned"
    /\ UNCHANGED <<results, times, temps, door_events, vrects, min_threshold,
                   max_threshold, metrics, rerunVars, time_mode, start_dt, end_dt, fetched>>

\* times, temps = get_temperature_history(start_dt, end_dt)
FetchTemperatureHistory ==
    /\ pc = "range"
    /\ ~RangeRejected
    /\ fetched' = Append(fetched, [startMs |-> ToEpochMs(start_dt[1]),
                                   endMs |-> ToEpochMs(end_dt[1])])
    /\ \E rs \in RerunTempResults :
          LET out == BuildTemperatureSeries(rs)
          IN  /\ results' = rs
              /\ times' = out.times
              /\ temps' = out.temps
    /\ pc' = "fetched_temperature"
    /\ UNCHANGED <<door_events, vrects, min_threshold, max_threshold, metrics,
                   rerunVars, time_mode, start_dt, end_dt, warned>>

\* door_events = get_door_history(start_dt, end_dt)
FetchDoorHistory ==
    /\ pc = "fetched_temperature"
    /\ fetched' = Append(fetched, [startMs |-> ToEpochMs(start_dt[1]),
                                   endMs |-> ToEpochMs(end_dt[1])])
    /\ \E rs \in RerunDoorResults :
          /\ results' = rs
          /\ door_events' = ExtractDoorEvents(rs)
    /\ pc' = "fetched_door"
    /\ UNCHANGED <<times, temps, vrects, min_threshold, max_threshold, metrics,
                   rerunVars, time_mode, start_dt, end_dt, warned>>

\* if times: the chart and the statistics, else: st.error
RenderOrError ==
    /\ pc = "fetched_door"
    /\ vrects' = IF times # <<>> THEN ShadeDoorOpen(times, door_events) ELSE <<>>
    /\ metrics' = RenderStatistics(times, temps, min_threshold, max_threshold)
    /\ pc' = "rendered"
    /\ UNCHANGED <<results, times, temps, door_events, min_threshold, max_threshold,
                   rerunVars, rangeVars>>

NextMain ==
    \/ SelectLiveRange
    \/ SelectCustomRange
    \/ RejectRange
    \/ FetchTemperatureHistory
    \/ FetchDoorHistory
    \/ RenderOrError

SpecMain == Init /\ [][NextMain]_vars

(***************************************************************************)
(* C12. In every run of main, in both time modes, the history queries are  *)
(* made only for a range whose start is strictly before its end; a run     *)
(* whose range has start >= end warns and returns without fetching,        *)
(* charting or computing statistics.                                       *)
(***************************************************************************)
C12_OnlyValidRangesFetched ==
    /\ \A i \in DOMAIN fetched : fetched[i].startMs < fetched[i].endMs
    /\ (pc \notin {"idle", "range"} /\ ToEpochMs(start_dt[1]) >= ToEpochMs(end_dt[1]))
          => /\ warned
             /\ fetched = <<>>
             /\ vrects = <<>>
             /\ metrics.shown = <<>>

\* what the validation does give: every queried range is ordered on the wall clock
RangeOrderedOnTheWallClock ==
    fetched # <<>> => start_dt[1].wall < end_dt[1].wall

\* a custom range with start = end is rejected: warned, nothing fetched
RangeRejectedReached ==
    /\ pc = "returned"
    /\ warned
    /\ fetched = <<>>
    /\ start_dt = end_dt

(***************************************************************************)
(* C13. Every region the shading scan of create_chart emits in a run of    *)
(* main has start <= end: the regions a closed event ends and the trailing *)
(* region that ends at times[-1].                                          *)
(***************************************************************************)
C13_RegionsStartBeforeTheyEnd ==
    pc = "rendered" =>
        \A k \in DOMAIN vrects : vrects[k].x0.instant <= vrects[k].x1.instant

====
